---- MODULE Spec2Model ----
(***************************************************************************)
(* Attachment store of the teacher file manager (src/files.py): the        *)
(* upload / view / download / delete / rename handlers over the relational *)
(* tables of src/models.py and the uploads directory.                      *)
(*                                                                         *)
(* Every request is a process.  One step of a request is one statement     *)
(* that touches a shared store: one SQL statement (query, flushed INSERT,  *)
(* COMMIT) or one filesystem call.  Code between two such statements is    *)
(* local to the request and is folded into the step before it.             *)
(*                                                                         *)
(* Strings are sequences of one-character strings so that strip, lower,    *)
(* splitext and secure_filename are computed, not assumed.                 *)
(***************************************************************************)
EXTENDS Integers, Sequences, FiniteSets, TLC

(***************************************************************************)
(* Bounds of the model.                                                    *)
(***************************************************************************)
\* number of request slots (requests that can be in flight together)
NumWorkers == 2
\* number of requests started in one behaviour
MaxRequests == 3

(***************************************************************************)
(* String helpers (Python str methods used by the handlers).               *)
(***************************************************************************)
IsSpace(c) == c = " "

RECURSIVE LStrip(_, _)
LStrip(s, C) == IF s # <<>> /\ Head(s) \in C THEN LStrip(Tail(s), C) ELSE s

RECURSIVE RStrip(_, _)
RStrip(s, C) ==
    IF s # <<>> /\ s[Len(s)] \in C THEN RStrip(SubSeq(s, 1, Len(s) - 1), C) ELSE s

\* str.strip(): whitespace removed at both ends
Strip(s) == RStrip(LStrip(s, {" "}), {" "})

LowerChar(c) ==
    CASE c = "P" -> "p"
      [] c = "D" -> "d"
      [] c = "F" -> "f"
      [] c = "A" -> "a"
      [] c = "B" -> "b"
      [] OTHER -> c

\* str.lower()
Lower(s) == [i \in 1..Len(s) |-> LowerChar(s[i])]

\* str.endswith(suffix)
EndsWith(s, suf) ==
    /\ Len(s) >= Len(suf)
    /\ SubSeq(s, Len(s) - Len(suf) + 1, Len(s)) = suf

DotPdf == <<".", "p", "d", "f">>

\* os.path.splitext(p)[0]: cut at the last dot, unless that dot comes before
\* the last separator or only dots lie between the separator and it
SplitextRoot(p) ==
    LET dots == {i \in 1..Len(p) : p[i] = "."}
        seps == {i \in 1..Len(p) : p[i] = "/"}
        Last(S) == CHOOSE i \in S : \A j \in S : j <= i
        sepIndex == IF seps = {} THEN 0 ELSE Last(seps)
        dotIndex == IF dots = {} THEN 0 ELSE Last(dots)
    IN  IF /\ dotIndex > sepIndex
           /\ \E k \in (sepIndex + 1)..(dotIndex - 1) : p[k] # "."
        THEN SubSeq(p, 1, dotIndex - 1)
        ELSE p

\* characters kept by werkzeug's _filename_ascii_strip_re = [^A-Za-z0-9_.-]
SafeChars == {"A", "B", "P", "D", "F", "a", "b", "m", "n", "x", "p", "d", "f", "t",
              "1", "2", "_", ".", "-"}

\* "_".join(filename.split()): whitespace runs become one "_", none at the ends
JoinSplit(s) ==
    LET t == Strip(s)
        F[i \in 0..Len(t)] ==
            IF i = 0 THEN <<>>
            ELSE IF ~IsSpace(t[i]) THEN Append(F[i - 1], t[i])
            ELSE IF IsSpace(t[i - 1]) THEN F[i - 1]
            ELSE Append(F[i - 1], "_")
    IN  F[Len(t)]

\* werkzeug.utils.secure_filename: separators to spaces, whitespace runs to
\* "_", unsafe characters dropped, leading and trailing "." and "_" stripped
SecureFilename(s) ==
    LET noSep == [i \in 1..Len(s) |-> IF s[i] = "/" THEN " " ELSE s[i]]
        kept  == SelectSeq(JoinSplit(noSep), LAMBDA c : c \in SafeChars)
    IN  RStrip(LStrip(kept, {".", "_"}), {".", "_"})


(***************************************************************************)
(* Inputs of the requests.                                                 *)
(***************************************************************************)
\* ids of the teachers registered before the first request of a behaviour
Docentes == {1, 2}

\* ids of the seeded carreras (sixteen rows, ids from 1)
NumCarreras == 16
Carreras == 1..NumCarreras

\* the bytes of an uploaded document
DataInputs == {1, 2}

\* the form of /upload_pdf: request.files["pdfFile"] (present or not, its
\* filename and bytes), materia_name and periodo as typed
UploadForm(present, filename, data, materia_name, periodo) ==
    [present |-> present, filename |-> filename, data |-> data,
     materia_name |-> materia_name, periodo |-> periodo]

UploadInputs ==
    { UploadForm(TRUE, <<"n", ".", "p", "d", "f">>, data, <<"A">>, <<"1">>) :
          data \in DataInputs }
    \cup
    { UploadForm(TRUE, <<"m", ".", "p", "d", "f">>, 1, <<"A">>, <<"1">>),
      UploadForm(TRUE, <<"x", ".", "p", "d", "f">>, 1, <<"A">>, <<"1">>),
      UploadForm(TRUE, <<"n", ".", "P", "D", "F">>, 1, <<"B", " ">>, <<"1">>),
      UploadForm(FALSE, <<>>, 1, <<"A">>, <<"1">>),
      UploadForm(TRUE, <<>>, 1, <<"A">>, <<"1">>),
      UploadForm(TRUE, <<"n", ".", "p", "d", "f">>, 1, <<" ">>, <<"1">>),
      UploadForm(TRUE, <<"n", ".", "p", "d", "f">>, 1, <<"A">>, <<>>),
      UploadForm(TRUE, <<"n", ".", "t", "x", "t">>, 1, <<"A">>, <<"1">>) }
\* what a file.save() that failed half way leaves on disk
PartialData == 0

\* <filename> of /view, /downloads, /delete and old_name of /rename
NameInputs ==
    { <<"A", "_", "1", "_", "n", ".", "p", "d", "f">>,
      <<"B", "_", "1", "_", "n", ".", "p", "d", "f">>,
      <<"x", ".", "p", "d", "f">> }

\* the JSON body of /rename: old_name and new_name as sent
RenameInputs ==
    { [old_name |-> old, new_name |-> new] :
          old \in NameInputs,
          new \in { <<"x">>, <<"B", "_", "1", "_", "n", ".", "p", "d", "f">> } }
    \cup
    { [old_name |-> <<>>, new_name |-> <<"x">>],
      [old_name |-> <<"A", "_", "1", "_", "n", ".", "p", "d", "f">>, new_name |-> <<>>] }

\* kinds of failure the environment can inject: a COMMIT that raises, another
\* SQL statement (query or flushed INSERT) that raises, a filesystem call
\* that raises.  A behaviour runs in one class of environment.
FaultClasses == { {"commit"}, {"commit", "stmt", "fs"} }

Workers == 1..NumWorkers

(***************************************************************************)
(* State.                                                                  *)
(***************************************************************************)
VARIABLES
    materias,   \* table materias: rows [id, nombre], committed
    cursos,     \* table cursos: rows [id, docente_id, materia_id, periodo]
    archivos,   \* table archivos: rows [id, nombre, fecha_subida, docente_id,
                \* curso_id]
    docentes,   \* table docentes: rows [id, numero_nomina, email]
    uploads,    \* the uploads directory: files [nombre, data]
    pc,         \* per request slot: the statement the request is at
    req,        \* per request slot: the request's arguments and locals (saved:
                \* file.save returned; critical: the "CRITICO" line was
                \* logged), then its response (status, body, sent)
    dbLock,     \* the slot whose transaction holds the database write lock, or 0
    faults,     \* the failures the environment injects in this behaviour
    started,    \* requests started so far
    pre         \* the stores as they were when the running request began

vars == <<materias, cursos, archivos, docentes, uploads, pc, req, dbLock, faults,
          started, pre>>

Stores == [materias |-> materias, cursos |-> cursos,
           archivos |-> archivos, uploads |-> uploads]

NoRequest ==
    [op |-> "none", user |-> 0,
     file_present |-> FALSE, file_filename |-> <<>>, data |-> 0,
     materia_name |-> <<>>, periodo |-> <<>>,
     filename |-> <<>>, new_name |-> <<>>,
     materia |-> 0, curso |-> 0, archivo |-> 0,
     txM |-> {}, txC |-> {},
     saved |-> FALSE, critical |-> FALSE,
     search |-> <<>>, listed |-> <<>>,
     numero_nomina |-> <<>>, email |-> <<>>, conflict |-> {}, created |-> 0,
     status |-> 0, body |-> "", sent |-> 0]

\* the accounts of the teachers registered before the first request
InitialDocentes ==
    { [id |-> d,
       numero_nomina |-> IF d = 1 THEN <<"1">> ELSE <<"2">>,
       email |-> IF d = 1 THEN <<"a">> ELSE <<"b">>] : d \in Docentes }

Init ==
    /\ materias = {}
    /\ cursos = {}
    /\ archivos = {}
    /\ docentes = InitialDocentes
    /\ uploads = {}
    /\ pc = [r \in Workers |-> "idle"]
    /\ req = [r \in Workers |-> NoRequest]
    /\ dbLock = 0
    /\ faults \in FaultClasses
    /\ started = 0
    /\ pre = Stores

(***************************************************************************)
(* The stores.                                                             *)
(***************************************************************************)
MaxOf(S) == IF S = {} THEN 0 ELSE CHOOSE x \in S : \A y \in S : y <= x

\* INTEGER PRIMARY KEY of a new row: one more than the largest id the
\* transaction sees
NextId(rows) == MaxOf({x.id : x \in rows}) + 1

\* os.path.exists(os.path.join(UPLOAD_FOLDER, name))
FileExists(name) == \E f \in uploads : f.nombre = name

FileData(name) == (CHOOSE f \in uploads : f.nombre = name).data

\* the directory after writing (or overwriting) name with data
WithFile(dir, name, data) ==
    {f \in dir : f.nombre # name} \cup {[nombre |-> name, data |-> data]}

WithoutFile(dir, name) == {f \in dir : f.nombre # name}

\* os.rename(src, dst) on an existing src: dst is replaced
Renamed(dir, src, dst) ==
    LET f == CHOOSE g \in dir : g.nombre = src
    IN  WithFile(WithoutFile(dir, src), dst, f.data)

\* login_required: the caller is a teacher whose row load_user finds
CurrentUsers == {t.id : t \in docentes}

\* rows a request's transaction sees: the committed ones and its own
SeenMaterias(r) == materias \cup req[r].txM
SeenCursos(r) == cursos \cup req[r].txC

\* a statement that writes needs the database write lock
CanWrite(r) == dbLock \in {0, r}

\* db.session.rollback(), and the session.remove() at the end of a request
RolledBack(q) == [q EXCEPT !.txM = {}, !.txC = {}]

Release(r) == IF dbLock = r THEN 0 ELSE dbLock

\* the request returns (status, body); its open transaction is rolled back
Return(r, q, status, body) ==
    /\ req' = [req EXCEPT ![r] = [RolledBack(q) EXCEPT !.status = status, !.body = body]]
    /\ pc' = [pc EXCEPT ![r] = "done"]
    /\ dbLock' = Release(r)

Goto(r, q, label) ==
    /\ req' = [req EXCEPT ![r] = q]
    /\ pc' = [pc EXCEPT ![r] = label]

\* a slot is free for the next request; a request that arrives while no
\* other is in flight is served by slot 1
CanBegin(r) ==
    /\ pc[r] \in {"idle", "done"}
    /\ r > 1 => \E o \in 1..(r - 1) : pc[o] \notin {"idle", "done"}
    /\ started < MaxRequests


(***************************************************************************)
(* upload_pdf                                                              *)
(***************************************************************************)
\* not file or not file.filename or not materia_name or not periodo
MissingInput(present, fname, materia_name, periodo) ==
    \/ ~present
    \/ fname = <<>>
    \/ materia_name = <<>>
    \/ periodo = <<>>

\* the extension test left out
AnyExtension(fname) == TRUE

\* file.filename.lower().endswith('.pdf')
HasPdfExtension(fname) == EndsWith(Lower(fname), DotPdf)

\* the stored name built from the whole filename, splitext left out
StoredNameKeepsExtension(materia_name, periodo, fname) ==
    SecureFilename(materia_name \o <<"_">> \o periodo \o <<"_">> \o fname \o DotPdf)

\* secure_filename(f"{materia_name}_{periodo}_{filename_raw}.pdf")
StoredName(materia_name, periodo, fname) ==
    SecureFilename(materia_name \o <<"_">> \o periodo \o <<"_">>
                   \o SplitextRoot(fname) \o DotPdf)

\* lines 61-75: read the form, validate, derive the stored name
UploadBegin(r) ==
    /\ CanBegin(r)
    /\ \E d \in CurrentUsers, form \in UploadInputs :
          LET q == [NoRequest EXCEPT
                       !.op = "upload", !.user = d,
                       !.file_present = form.present, !.file_filename = form.filename,
                       !.data = form.data,
                       !.materia_name = Strip(form.materia_name),
                       !.periodo = Strip(form.periodo)]
          IN  IF MissingInput(form.present, form.filename, q.materia_name, q.periodo)
              THEN Return(r, q, 400, "missing")
              ELSE IF ~HasPdfExtension(form.filename)
              THEN Return(r, q, 400, "format")
              ELSE /\ Goto(r, [q EXCEPT !.filename =
                                  StoredName(q.materia_name, q.periodo, form.filename)],
                           "u_materia_query")
                   /\ UNCHANGED dbLock
    /\ started' = started + 1
    /\ UNCHANGED <<materias, cursos, archivos, uploads, faults>>

\* a statement inside the try block raises something that is no
\* IntegrityError: line 126 rolls back, then the handler goes on to line 129
UploadRaise(r) ==
    /\ Goto(r, RolledBack(req[r]), "u_cleanup")
    /\ dbLock' = Release(r)

\* line 80: Materia.query.filter_by(nombre=materia_name).first()
UploadMateriaQuery(r) ==
    /\ pc[r] = "u_materia_query"
    /\ \/ LET found == {x \in SeenMaterias(r) : x.nombre = req[r].materia_name}
          IN  /\ IF found = {}
                 THEN Goto(r, req[r], "u_materia_insert")
                 ELSE Goto(r, [req[r] EXCEPT !.materia = (CHOOSE x \in found : TRUE).id],
                           "u_curso_query")
              /\ UNCHANGED dbLock
       \/ /\ "stmt" \in faults
          /\ UploadRaise(r)
    /\ UNCHANGED <<materias, cursos, archivos, uploads, faults, started>>

\* lines 82-84: add the Materia and flush (INSERT); nombre is unique
UploadMateriaInsert(r) ==
    /\ pc[r] = "u_materia_insert"
    /\ \/ /\ CanWrite(r)
          /\ \A x \in materias : x.nombre # req[r].materia_name
          /\ LET row == [id |-> NextId(SeenMaterias(r)), nombre |-> req[r].materia_name]
             IN  Goto(r, [req[r] EXCEPT !.txM = @ \cup {row}, !.materia = row.id],
                      "u_curso_query")
          /\ dbLock' = r
       \/ /\ CanWrite(r)
          /\ \E x \in materias : x.nombre = req[r].materia_name
          /\ Return(r, req[r], 409, "integrity")
       \/ /\ "stmt" \in faults
          /\ UploadRaise(r)
    /\ UNCHANGED <<materias, cursos, archivos, uploads, faults, started>>

\* lines 87-91: Curso.query.filter_by(docente_id, materia_id, periodo).first()
UploadCursoQuery(r) ==
    /\ pc[r] = "u_curso_query"
    /\ \/ LET found == {x \in SeenCursos(r) :
                           /\ x.docente_id = req[r].user
                           /\ x.materia_id = req[r].materia
                           /\ x.periodo = req[r].periodo}
          IN  /\ IF found = {}
                 THEN Goto(r, req[r], "u_curso_insert")
                 ELSE Goto(r, [req[r] EXCEPT !.curso = (CHOOSE x \in found : TRUE).id],
                           "u_archivo_query")
              /\ UNCHANGED dbLock
       \/ /\ "stmt" \in faults
          /\ UploadRaise(r)
    /\ UNCHANGED <<materias, cursos, archivos, uploads, faults, started>>

\* the table without the unique constraint
CursoNeverTaken(d, m, p) == FALSE

\* the unique constraint _docente_materia_periodo_uc
CursoTaken(d, m, p) ==
    \E x \in cursos : x.docente_id = d /\ x.materia_id = m /\ x.periodo = p

\* lines 94-100: add the Curso and flush (INSERT)
UploadCursoInsert(r) ==
    /\ pc[r] = "u_curso_insert"
    /\ \/ /\ CanWrite(r)
          /\ ~CursoTaken(req[r].user, req[r].materia, req[r].periodo)
          /\ LET row == [id |-> NextId(SeenCursos(r)), docente_id |-> req[r].user,
                         materia_id |-> req[r].materia, periodo |-> req[r].periodo]
             IN  Goto(r, [req[r] EXCEPT !.txC = @ \cup {row}, !.curso = row.id],
                      "u_archivo_query")
          /\ dbLock' = r
       \/ /\ CanWrite(r)
          /\ CursoTaken(req[r].user, req[r].materia, req[r].periodo)
          /\ Return(r, req[r], 409, "integrity")
       \/ /\ "stmt" \in faults
          /\ UploadRaise(r)
    /\ UNCHANGED <<materias, cursos, archivos, uploads, faults, started>>

\* Archivo.query.filter_by(nombre=name).first() is not None
ArchivoNamed(name) == \E a \in archivos : a.nombre = name

\* lines 103-104: the stored name is taken: 409, nothing committed
UploadArchivoQuery(r) ==
    /\ pc[r] = "u_archivo_query"
    /\ \/ IF ArchivoNamed(req[r].filename)
          THEN Return(r, req[r], 409, "exists")
          ELSE Goto(r, req[r], "u_save") /\ UNCHANGED dbLock
       \/ /\ "stmt" \in faults
          /\ UploadRaise(r)
    /\ UNCHANGED <<materias, cursos, archivos, uploads, faults, started>>

\* line 107: file.save(filepath); a save that raises may leave a partial file
UploadSave(r) ==
    /\ pc[r] = "u_save"
    /\ \/ /\ uploads' = WithFile(uploads, req[r].filename, req[r].data)
          /\ Goto(r, [req[r] EXCEPT !.saved = TRUE], "u_commit")
          /\ UNCHANGED dbLock
       \/ /\ "fs" \in faults
          /\ \/ UNCHANGED uploads
             \/ uploads' = WithFile(uploads, req[r].filename, PartialData)
          /\ UploadRaise(r)
    /\ UNCHANGED <<materias, cursos, archivos, faults, started>>

\* the Archivo row of lines 110-115; datetime.utcnow() is read as the number
\* of requests that have arrived
NewArchivo(r) ==
    [id |-> NextId(archivos), nombre |-> req[r].filename,
     fecha_subida |-> started,
     docente_id |-> req[r].user, curso_id |-> req[r].curso]

\* lines 116-119: INSERT the Archivo and COMMIT; nombre is unique
UploadCommit(r) ==
    /\ pc[r] = "u_commit"
    /\ \/ /\ CanWrite(r)
          /\ ~ArchivoNamed(req[r].filename)
          /\ archivos' = archivos \cup {NewArchivo(r)}
          /\ materias' = materias \cup req[r].txM
          /\ cursos' = cursos \cup req[r].txC
          /\ Return(r, req[r], 200, "ok")
       \/ /\ CanWrite(r)
          /\ ArchivoNamed(req[r].filename)
          /\ Return(r, req[r], 409, "integrity")
          /\ UNCHANGED <<materias, cursos, archivos>>
       \/ /\ "commit" \in faults
          /\ UploadRaise(r)
          /\ UNCHANGED <<materias, cursos, archivos>>
    /\ UNCHANGED <<uploads, faults, started>>

\* the handler of line 125 without its os.remove
UploadCleanupKeepsFile(r) ==
    /\ pc[r] = "u_cleanup"
    /\ UNCHANGED uploads
    /\ Return(r, req[r], 500, "unexpected")
    /\ UNCHANGED <<materias, cursos, archivos, faults, started>>

\* lines 129-131: if os.path.exists(filepath): os.remove(filepath); 500.
\* An os.remove that raises leaves the handler with an unhandled error.
UploadCleanup(r) ==
    /\ pc[r] = "u_cleanup"
    /\ \/ /\ uploads' = WithoutFile(uploads, req[r].filename)
          /\ Return(r, req[r], 500, "unexpected")
       \/ /\ "fs" \in faults
          /\ FileExists(req[r].filename)
          /\ UNCHANGED uploads
          /\ Return(r, req[r], 500, "unhandled")
    /\ UNCHANGED <<materias, cursos, archivos, faults, started>>

Upload(r) ==
    \/ UploadBegin(r)
    \/ UploadMateriaQuery(r)
    \/ UploadMateriaInsert(r)
    \/ UploadCursoQuery(r)
    \/ UploadCursoInsert(r)
    \/ UploadArchivoQuery(r)
    \/ UploadSave(r)
    \/ UploadCommit(r)
    \/ UploadCleanup(r)


(***************************************************************************)
(* view_file, download_file                                                *)
(***************************************************************************)
\* the lookup by name alone, docente_id left out
FindAnyOwner(name, d) == {a \in archivos : a.nombre = name}

\* Archivo.query.filter_by(nombre=name, docente_id=current_user.id).first()
FindOwned(name, d) == {a \in archivos : a.nombre = name /\ a.docente_id = d}

\* lines 143-146 / 158-160: look the row up, scoped to the caller; abort(404)
ServeLookup(r, op) ==
    /\ CanBegin(r)
    /\ \E d \in CurrentUsers, name \in NameInputs :
          LET q == [NoRequest EXCEPT !.op = op, !.user = d, !.filename = name]
          IN  IF FindOwned(name, d) = {}
              THEN Return(r, q, 404, "not_found")
              ELSE /\ Goto(r, [q EXCEPT !.archivo =
                                  (CHOOSE a \in FindOwned(name, d) : TRUE).id],
                           IF op = "view" THEN "v_send" ELSE "w_send")
                   /\ UNCHANGED dbLock
    /\ started' = started + 1
    /\ UNCHANGED <<materias, cursos, archivos, uploads, faults>>

\* lines 151 / 163: send_from_directory answers 404 when the file is not there
ServeSend(r, label) ==
    /\ pc[r] = label
    /\ IF FileExists(req[r].filename)
       THEN Return(r, [req[r] EXCEPT !.sent = FileData(req[r].filename)], 200, "pdf")
       ELSE Return(r, req[r], 404, "not_found")
    /\ UNCHANGED <<materias, cursos, archivos, uploads, faults, started>>

ViewFile(r) == ServeLookup(r, "view") \/ ServeSend(r, "v_send")

DownloadFile(r) == ServeLookup(r, "download") \/ ServeSend(r, "w_send")

(***************************************************************************)
(* delete_file                                                             *)
(***************************************************************************)
\* lines 171-175: look the row up, scoped to the caller
DeleteLookup(r) ==
    /\ CanBegin(r)
    /\ \E d \in CurrentUsers, name \in NameInputs :
          LET q == [NoRequest EXCEPT !.op = "delete", !.user = d, !.filename = name]
          IN  IF FindOwned(name, d) = {}
              THEN Return(r, q, 404, "delete_not_found")
              ELSE /\ Goto(r, [q EXCEPT !.archivo =
                                  (CHOOSE a \in FindOwned(name, d) : TRUE).id],
                           "d_commit")
                   /\ UNCHANGED dbLock
    /\ started' = started + 1
    /\ UNCHANGED <<materias, cursos, archivos, uploads, faults>>

\* the file unlinked before the COMMIT is known to have succeeded
DeleteCommitUnlinksFirst(r) ==
    /\ pc[r] = "d_commit"
    /\ uploads' = WithoutFile(uploads, req[r].filename)
    /\ \/ /\ CanWrite(r)
          /\ archivos' = {a \in archivos : a.id # req[r].archivo}
          /\ Goto(r, req[r], "d_remove")
          /\ dbLock' = Release(r)
       \/ /\ "commit" \in faults
          /\ UNCHANGED archivos
          /\ Return(r, req[r], 500, "delete_error")
    /\ UNCHANGED <<materias, cursos, faults, started>>

\* the DELETE addressed by the name the request was given, not by the
\* primary key of the row it loaded
DeleteCommitByName(r) ==
    /\ pc[r] = "d_commit"
    /\ \/ /\ CanWrite(r)
          /\ archivos' = {a \in archivos : a.nombre # req[r].filename}
          /\ Goto(r, req[r], "d_remove")
          /\ dbLock' = Release(r)
       \/ /\ "commit" \in faults
          /\ UNCHANGED archivos
          /\ Return(r, req[r], 500, "delete_error")
    /\ UNCHANGED <<materias, cursos, uploads, faults, started>>

\* lines 179-180: DELETE the row by primary key and COMMIT; a COMMIT that
\* raises goes to lines 188-190
DeleteCommit(r) ==
    /\ pc[r] = "d_commit"
    /\ \/ /\ CanWrite(r)
          /\ archivos' = {a \in archivos : a.id # req[r].archivo}
          /\ Goto(r, req[r], "d_remove")
          /\ dbLock' = Release(r)
       \/ /\ "commit" \in faults
          /\ UNCHANGED archivos
          /\ Return(r, req[r], 500, "delete_error")
    /\ UNCHANGED <<materias, cursos, uploads, faults, started>>

\* success reported without the os.remove
DeleteRemoveSkipped(r) ==
    /\ pc[r] = "d_remove"
    /\ UNCHANGED uploads
    /\ Return(r, req[r], 200, "deleted")
    /\ UNCHANGED <<materias, cursos, archivos, faults, started>>

\* lines 183-186: if os.path.exists(filepath): os.remove(filepath); 200.
\* An os.remove that raises goes to lines 188-190
DeleteRemove(r) ==
    /\ pc[r] = "d_remove"
    /\ \/ /\ uploads' = WithoutFile(uploads, req[r].filename)
          /\ Return(r, req[r], 200, "deleted")
       \/ /\ "fs" \in faults
          /\ FileExists(req[r].filename)
          /\ UNCHANGED uploads
          /\ Return(r, req[r], 500, "delete_error")
    /\ UNCHANGED <<materias, cursos, archivos, faults, started>>

DeleteFile(r) == DeleteLookup(r) \/ DeleteCommit(r) \/ DeleteRemove(r)

(***************************************************************************)
(* rename_file                                                             *)
(***************************************************************************)
\* lines 207-213: secure_filename, then ".pdf" appended unless already there
FinalNewName(new_name_raw) ==
    LET clean_new_name == SecureFilename(new_name_raw)
    IN  IF EndsWith(Lower(clean_new_name), DotPdf)
        THEN clean_new_name
        ELSE clean_new_name \o DotPdf

\* lines 199-221: read the JSON body, 400 unless both names are given, look
\* the row up by old_name scoped to the caller
RenameLookup(r) ==
    /\ CanBegin(r)
    /\ \E d \in CurrentUsers, body \in RenameInputs :
          LET old == body.old_name
              new == body.new_name
              q == [NoRequest EXCEPT !.op = "rename", !.user = d, !.filename = old]
          IN  IF old = <<>> \/ new = <<>>
              THEN Return(r, q, 400, "names_required")
              ELSE IF FindOwned(old, d) = {}
              THEN Return(r, [q EXCEPT !.new_name = FinalNewName(new)],
                          404, "rename_not_found")
              ELSE /\ Goto(r, [q EXCEPT !.new_name = FinalNewName(new),
                                        !.archivo = (CHOOSE a \in FindOwned(old, d) : TRUE).id],
                           "r_check")
                   /\ UNCHANGED dbLock
    /\ started' = started + 1
    /\ UNCHANGED <<materias, cursos, archivos, uploads, faults>>

\* the name check scoped to the caller's own rows
RenameCheckOwnRows(r) ==
    /\ pc[r] = "r_check"
    /\ IF FindOwned(req[r].new_name, req[r].user) # {}
       THEN Return(r, req[r], 400, "name_taken")
       ELSE Goto(r, req[r], "r_move") /\ UNCHANGED dbLock
    /\ UNCHANGED <<materias, cursos, archivos, uploads, faults, started>>

\* lines 224-225: the final new name is taken by any teacher's row: 400
RenameCheck(r) ==
    /\ pc[r] = "r_check"
    /\ IF ArchivoNamed(req[r].new_name)
       THEN Return(r, req[r], 400, "name_taken")
       ELSE Goto(r, req[r], "r_move") /\ UNCHANGED dbLock
    /\ UNCHANGED <<materias, cursos, archivos, uploads, faults, started>>

\* lines 228-236: os.rename(old_path, new_path) if old_path exists; an
\* os.rename that raises returns 500
RenameMove(r) ==
    /\ pc[r] = "r_move"
    /\ \/ /\ uploads' = IF FileExists(req[r].filename)
                        THEN Renamed(uploads, req[r].filename, req[r].new_name)
                        ELSE uploads
          /\ Goto(r, req[r], "r_commit")
          /\ UNCHANGED dbLock
       \/ /\ "fs" \in faults
          /\ FileExists(req[r].filename)
          /\ UNCHANGED uploads
          /\ Return(r, req[r], 500, "fs_error")
    /\ UNCHANGED <<materias, cursos, archivos, faults, started>>

\* lines 240-244: UPDATE nombre by primary key and COMMIT.  The UPDATE raises
\* when the row is gone (StaleDataError) or the name is taken by now
\* (IntegrityError); every exception rolls back and goes to line 246
RenameCommit(r) ==
    /\ pc[r] = "r_commit"
    /\ \/ /\ CanWrite(r)
          /\ \E a \in archivos : a.id = req[r].archivo
          /\ \A a \in archivos : a.nombre = req[r].new_name => a.id = req[r].archivo
          /\ archivos' = {IF a.id = req[r].archivo
                          THEN [a EXCEPT !.nombre = req[r].new_name]
                          ELSE a : a \in archivos}
          /\ Return(r, req[r], 200, "renamed")
       \/ /\ CanWrite(r)
          /\ \/ \A a \in archivos : a.id # req[r].archivo
             \/ \E a \in archivos : a.nombre = req[r].new_name /\ a.id # req[r].archivo
          /\ UNCHANGED archivos
          /\ Goto(r, req[r], "r_revert")
          /\ dbLock' = Release(r)
       \/ /\ "commit" \in faults
          /\ UNCHANGED archivos
          /\ Goto(r, req[r], "r_revert")
          /\ dbLock' = Release(r)
    /\ UNCHANGED <<materias, cursos, uploads, faults, started>>

\* the handler of line 243 without the rename back
RenameRevertSkipped(r) ==
    /\ pc[r] = "r_revert"
    /\ UNCHANGED uploads
    /\ Return(r, req[r], 500, "db_error")
    /\ UNCHANGED <<materias, cursos, archivos, faults, started>>

\* lines 246-252: os.rename(new_path, old_path); when it raises (new_path is
\* not there, or the call fails) the "CRITICO" line is logged; 500 either way
RenameRevert(r) ==
    /\ pc[r] = "r_revert"
    /\ \/ /\ FileExists(req[r].new_name)
          /\ uploads' = Renamed(uploads, req[r].new_name, req[r].filename)
          /\ Return(r, req[r], 500, "db_error")
       \/ /\ \/ ~FileExists(req[r].new_name)
             \/ "fs" \in faults
          /\ UNCHANGED uploads
          /\ Return(r, [req[r] EXCEPT !.critical = TRUE], 500, "db_error")
    /\ UNCHANGED <<materias, cursos, archivos, faults, started>>

RenameFile(r) ==
    \/ RenameLookup(r)
    \/ RenameCheck(r)
    \/ RenameMove(r)
    \/ RenameCommit(r)
    \/ RenameRevert(r)

(***************************************************************************)
(* list_files                                                              *)
(***************************************************************************)
\* the search argument of /list_files
SearchInputs == { <<>>, <<"a">>, <<"n", "_", "p">>, <<"x">> }

\* SQL LIKE: "%" matches any run of characters, "_" any one character, any
\* other character itself, letters without regard to case
RECURSIVE Like(_, _)
Like(pattern, s) ==
    IF pattern = <<>>
    THEN s = <<>>
    ELSE IF Head(pattern) = "%"
    THEN \/ Like(Tail(pattern), s)
         \/ s # <<>> /\ Like(pattern, Tail(s))
    ELSE /\ s # <<>>
         /\ \/ Head(pattern) = "_"
            \/ LowerChar(Head(pattern)) = LowerChar(Head(s))
         /\ Like(Tail(pattern), Tail(s))

\* column.ilike(f'%{search_term}%')
ILike(column, search_term) == Like(<<"%">> \o search_term \o <<"%">>, column)

\* lines 266-275: the caller's rows; with a search term, joined to their
\* Curso and Materia and filtered on the three columns
ListQuery(d, search_term) ==
    LET owned == {a \in archivos : a.docente_id = d}
    IN  IF search_term = <<>>
        THEN owned
        ELSE {a \in owned :
                 \E c \in cursos, m \in materias :
                     /\ c.id = a.curso_id
                     /\ m.id = c.materia_id
                     /\ \/ ILike(a.nombre, search_term)
                        \/ ILike(m.nombre, search_term)
                        \/ ILike(c.periodo, search_term)}

\* order_by(Archivo.fecha_subida.desc()): the rows as a sequence, latest first
RECURSIVE OrderByFechaDesc(_)
OrderByFechaDesc(rows) ==
    IF rows = {}
    THEN <<>>
    ELSE LET first == CHOOSE a \in rows :
                          \A b \in rows : b.fecha_subida <= a.fecha_subida
         IN  <<first>> \o OrderByFechaDesc(rows \ {first})

\* lines 260-300: one query, answered as the list of the rows' names; an
\* exception is answered 500
ListFiles(r) ==
    /\ CanBegin(r)
    /\ \E d \in CurrentUsers, search_term \in SearchInputs :
          LET q == [NoRequest EXCEPT !.op = "list", !.user = d, !.search = search_term]
              rows == OrderByFechaDesc(ListQuery(d, search_term))
          IN  \/ Return(r, [q EXCEPT !.listed = [i \in 1..Len(rows) |-> rows[i].nombre]],
                        200, "files")
              \/ /\ "stmt" \in faults
                 /\ Return(r, q, 500, "list_error")
    /\ started' = started + 1
    /\ UNCHANGED <<materias, cursos, archivos, docentes, uploads, faults>>

(***************************************************************************)
(* register                                                                *)
(***************************************************************************)
\* the form of /auth/register: numero_nomina and email as typed, carrera_id
\* (0: none chosen), password and confirm_password
RegisterForm(numero_nomina, email, carrera_id, password, confirm_password) ==
    [numero_nomina |-> numero_nomina, email |-> email, carrera_id |-> carrera_id,
     password |-> password, confirm_password |-> confirm_password]

RegisterInputs ==
    { RegisterForm(<<"3">>, <<"c">>, 1, "p", "p"),
      RegisterForm(<<"3", " ">>, <<"d">>, 2, "p", "p"),
      RegisterForm(<<"4">>, <<" ", "c">>, 1, "p", "p"),
      RegisterForm(<<"1">>, <<"e">>, 1, "p", "p"),
      RegisterForm(<<"5">>, <<"a">>, 1, "p", "p"),
      RegisterForm(<<"1">>, <<"b">>, 1, "p", "p"),
      RegisterForm(<<" ">>, <<"c">>, 1, "p", "p"),
      RegisterForm(<<"3">>, <<"c">>, 0, "p", "p"),
      RegisterForm(<<"3">>, <<"c">>, 1, "p", "q"),
      RegisterForm(<<"3">>, <<"c">>, NumCarreras + 1, "p", "p") }

\* the unique constraints of docentes.numero_nomina and docentes.email: the
\* columns of a new row that collide with a stored row
Collisions(numero_nomina, email) ==
    {f \in {"numero_nomina"} : \E t \in docentes : t.numero_nomina = numero_nomina}
    \cup {f \in {"email"} : \E t \in docentes : t.email = email}

\* lines 46-71: read the form, require every field, compare the passwords,
\* look the carrera up
RegisterBegin(r) ==
    /\ CanBegin(r)
    /\ \E form \in RegisterInputs :
          LET q == [NoRequest EXCEPT
                       !.op = "register",
                       !.numero_nomina = Strip(form.numero_nomina),
                       !.email = Strip(form.email)]
          IN  IF \/ q.numero_nomina = <<>> \/ q.email = <<>> \/ form.carrera_id = 0
                 \/ form.password = "" \/ form.confirm_password = ""
              THEN Return(r, q, 200, "fields_required")
              ELSE IF form.password # form.confirm_password
              THEN Return(r, q, 200, "password_mismatch")
              ELSE IF form.carrera_id \notin Carreras
              THEN Return(r, q, 200, "invalid_carrera")
              ELSE Goto(r, q, "g_commit") /\ UNCHANGED dbLock
    /\ started' = started + 1
    /\ UNCHANGED <<materias, cursos, archivos, docentes, uploads, faults>>

\* the INSERT of lines 88-89 without the unique constraints
RegisterCommitUnconstrained(r) ==
    /\ pc[r] = "g_commit"
    /\ CanWrite(r)
    /\ LET row == [id |-> NextId(docentes), numero_nomina |-> req[r].numero_nomina,
                   email |-> req[r].email]
       IN  /\ docentes' = docentes \cup {row}
           /\ Return(r, [req[r] EXCEPT !.created = row.id], 302, "registered")
    /\ UNCHANGED <<materias, cursos, archivos, uploads, faults, started>>

\* lines 87-105: INSERT the Docente and COMMIT.  A colliding numero_nomina or
\* email raises IntegrityError: rollback, then the queries of lines 95-97;
\* any other exception: rollback and the generic message
RegisterCommit(r) ==
    /\ pc[r] = "g_commit"
    /\ \/ /\ CanWrite(r)
          /\ Collisions(req[r].numero_nomina, req[r].email) = {}
          /\ LET row == [id |-> NextId(docentes), numero_nomina |-> req[r].numero_nomina,
                         email |-> req[r].email]
             IN  /\ docentes' = docentes \cup {row}
                 /\ Return(r, [req[r] EXCEPT !.created = row.id], 302, "registered")
       \/ /\ CanWrite(r)
          /\ Collisions(req[r].numero_nomina, req[r].email) # {}
          /\ UNCHANGED docentes
          /\ Goto(r, [req[r] EXCEPT !.conflict =
                         Collisions(req[r].numero_nomina, req[r].email)],
                  "g_nomina_query")
          /\ dbLock' = Release(r)
       \/ /\ "commit" \in faults
          /\ UNCHANGED docentes
          /\ Return(r, req[r], 200, "register_unexpected")
    /\ UNCHANGED <<materias, cursos, archivos, uploads, faults, started>>

\* lines 95-96: Docente.query.filter_by(numero_nomina=numero_nomina).first()
RegisterNominaQuery(r) ==
    /\ pc[r] = "g_nomina_query"
    /\ IF \E t \in docentes : t.numero_nomina = req[r].numero_nomina
       THEN Return(r, req[r], 200, "nomina_taken")
       ELSE Goto(r, req[r], "g_email_query") /\ UNCHANGED dbLock
    /\ UNCHANGED <<materias, cursos, archivos, docentes, uploads, faults, started>>

\* lines 97-100: Docente.query.filter_by(email=email).first()
RegisterEmailQuery(r) ==
    /\ pc[r] = "g_email_query"
    /\ IF \E t \in docentes : t.email = req[r].email
       THEN Return(r, req[r], 200, "email_taken")
       ELSE Return(r, req[r], 200, "integrity_unknown")
    /\ UNCHANGED <<materias, cursos, archivos, docentes, uploads, faults, started>>

Register(r) ==
    \/ RegisterBegin(r)
    \/ RegisterCommit(r)
    \/ RegisterNominaQuery(r)
    \/ RegisterEmailQuery(r)

(***************************************************************************)
(* delete_account                                                          *)
(***************************************************************************)
\* the rows that reference teacher d: Docente.cursos_impartidos and
\* Docente.archivos_subidos (no Reporte row is ever written)
Dependents(d) ==
    {c \in cursos : c.docente_id = d} \cup {a \in archivos : a.docente_id = d}

\* the DELETE issued whatever rows reference the teacher
DeleteAccountIgnoresDependents(r) ==
    /\ CanBegin(r)
    /\ \E d \in CurrentUsers :
          LET q == [NoRequest EXCEPT !.op = "delete_account", !.user = d]
          IN  /\ CanWrite(r)
              /\ docentes' = {t \in docentes : t.id # d}
              /\ Return(r, q, 302, "account_deleted")
    /\ started' = started + 1
    /\ UNCHANGED <<materias, cursos, archivos, uploads, faults>>

\* lines 195-213: logout_user(), db.session.delete(docente), COMMIT.  The
\* relationships have no cascade: the flush first sets docente_id of the
\* teacher's Curso and Archivo rows to NULL, which the NOT NULL columns
\* refuse (IntegrityError).  Every exception: rollback and the error message
DeleteAccount(r) ==
    /\ CanBegin(r)
    /\ \E d \in CurrentUsers :
          LET q == [NoRequest EXCEPT !.op = "delete_account", !.user = d]
          IN  \/ /\ CanWrite(r)
                 /\ Dependents(d) = {}
                 /\ docentes' = {t \in docentes : t.id # d}
                 /\ Return(r, q, 302, "account_deleted")
              \/ /\ CanWrite(r)
                 /\ Dependents(d) # {}
                 /\ UNCHANGED docentes
                 /\ Return(r, q, 302, "account_delete_failed")
              \/ /\ "commit" \in faults
                 /\ UNCHANGED docentes
                 /\ Return(r, q, 302, "account_delete_failed")
    /\ started' = started + 1
    /\ UNCHANGED <<materias, cursos, archivos, uploads, faults>>

(***************************************************************************)
(* Specifications.                                                         *)
(***************************************************************************)
Request(r) ==
    \/ Upload(r)
    \/ ViewFile(r)
    \/ DownloadFile(r)
    \/ DeleteFile(r)
    \/ RenameFile(r)

\* requests of all slots interleave statement by statement
Next == \E r \in Workers : Request(r) /\ UNCHANGED <<docentes, pre>>

Spec == Init /\ [][Next]_vars

\* requests run one at a time, each to its end; pre keeps the stores as the
\* running request found them
NextSeq ==
    /\ \/ Request(1) /\ UNCHANGED docentes
       \/ ListFiles(1)
    /\ pre' = IF pc[1] \in {"idle", "done"} THEN Stores ELSE pre

SpecSeq == Init /\ [][NextSeq]_vars

\* registrations, account deletions and the requests that write Attachment
\* rows, one at a time
NextAccounts ==
    /\ \/ (Upload(1) \/ DeleteFile(1) \/ RenameFile(1)) /\ UNCHANGED docentes
       \/ Register(1)
       \/ DeleteAccount(1)
    /\ pre' = IF pc[1] \in {"idle", "done"} THEN Stores ELSE pre

SpecAccounts == Init /\ [][NextAccounts]_vars

\* registrations of all slots interleave statement by statement
NextRegister == \E r \in Workers : Register(r) /\ UNCHANGED pre

SpecRegister == Init /\ [][NextRegister]_vars

\* uploads of all slots interleave statement by statement
NextUploads == \E r \in Workers : Upload(r) /\ UNCHANGED <<docentes, pre>>

SpecUploads == Init /\ [][NextUploads]_vars


(***************************************************************************)
(* Properties.                                                             *)
(***************************************************************************)
Quiet == \A r \in Workers : pc[r] \in {"idle", "done"}

RowNames == {a.nombre : a \in archivos}
FileNames == {f.nombre : f \in uploads}

FileIn(dir, name) == \E f \in dir : f.nombre = name
RowIn(rows, name) == \E a \in rows : a.nombre = name

\* request r has returned from handler op
Returned(r, op) == pc[r] = "done" /\ req[r].op = op

C2_AsClaimed ==
    [][\A r \in Workers :
          ( /\ "fs" \notin faults
            /\ pc[r] # "done" /\ pc'[r] = "done"
            /\ req'[r].op = "upload"
            /\ req'[r].saved
            /\ req'[r].status # 200 )
          => ~FileIn(uploads', req'[r].filename)]_vars

\* the file that is at old_name when the Rename begins
OldFile(r) == CHOOSE f \in pre.uploads : f.nombre = req[r].filename

\* row and file both carry the final new name
BothRenamed(r) ==
    /\ \E a \in archivos : a.id = req[r].archivo /\ a.nombre = req[r].new_name
    /\ [nombre |-> req[r].new_name, data |-> OldFile(r).data] \in uploads
    /\ ~FileIn(uploads, req[r].filename)

\* row and file both still carry old_name
BothKept(r) ==
    /\ \E a \in archivos : a.id = req[r].archivo /\ a.nombre = req[r].filename
    /\ OldFile(r) \in uploads

\* a Rename by the owner of old_name, whose file is there, has returned
OwnerRenameReturned(r) ==
    /\ Returned(r, "rename")
    /\ \E a \in pre.archivos :
          a.nombre = req[r].filename /\ a.docente_id = req[r].user
    /\ FileIn(pre.uploads, req[r].filename)
    /\ req[r].new_name # <<>>

\* C3, as claimed: when a Rename by the owner of old_name returns, row and
\* file both carry the final new name or both still carry old_name.
C3_AsClaimed == OwnerRenameReturned(1) => (BothRenamed(1) \/ BothKept(1))

\* C3, amended: when a Rename by the owner of old_name (whose file is present)
\* returns, row and file both carry the final new name or both still carry
\* old_name, unless the rename back to old_name after a failed commit failed
\* itself: then the file carries the new name, the row old_name, and the
\* critical line is logged with the 500.
C3_RenameAtomicUnlessCritical ==
    OwnerRenameReturned(1) =>
        IF req[1].critical
        THEN /\ req[1].status = 500
             /\ RowIn(archivos, req[1].filename)
             /\ FileIn(uploads, req[1].new_name)
        ELSE /\ BothRenamed(1) \/ BothKept(1)
             /\ req[1].status = 200 <=> BothRenamed(1)

\* the commit of a Rename failed and the file is back under old_name
C3_Witness ==
    /\ OwnerRenameReturned(1)
    /\ req[1].body = "db_error"
    /\ ~req[1].critical
    /\ BothKept(1)


\* C4, as claimed: a uniqueness violation raised by the INSERT of a Materia
\* or of a Curso (an IntegrityError before the file is saved) never makes an
\* Upload fail.
C4_AsClaimed ==
    \A r \in Workers :
        ~( /\ Returned(r, "upload")
           /\ req[r].status = 409
           /\ req[r].body = "integrity"
           /\ ~req[r].saved )

\* C5: a Delete removes the file only after its row is gone: while or after a
\* Delete runs, if the file that was there when it began is no longer there,
\* no row of that name exists; and a Delete whose commit failed (the row is
\* still there) has left the uploads directory as it found it.
C5_RowGoneBeforeFile ==
    req[1].op = "delete" =>
        /\ ( /\ FileIn(pre.uploads, req[1].filename)
             /\ ~FileIn(uploads, req[1].filename) )
           => ~RowIn(archivos, req[1].filename)
        /\ RowIn(archivos, req[1].filename) => uploads = pre.uploads

\* a Delete between its commit and its os.remove: row gone, file still there
C5_Witness ==
    /\ req[1].op = "delete"
    /\ pc[1] = "d_remove"
    /\ ~RowIn(archivos, req[1].filename)
    /\ FileIn(uploads, req[1].filename)

\* the name of the request is stored, owned by another teacher
Foreign(r) ==
    \E a \in pre.archivos :
        a.nombre = req[r].filename /\ a.docente_id # req[r].user

\* the name of the request is not stored at all
Absent(r) == ~RowIn(pre.archivos, req[r].filename)

NotFoundBody(op) ==
    CASE op = "delete" -> "delete_not_found"
      [] op = "rename" -> "rename_not_found"
      [] OTHER -> "not_found"

\* C6: View, Download, Delete and Rename (with both names given) of a name
\* owned by another teacher return the same 404 response as for a name that
\* is not stored, send no bytes, and leave the tables and the uploads
\* directory as they were.
C6_ForeignIsNotFound ==
    ( /\ pc[1] = "done"
      /\ req[1].op \in {"view", "download", "delete", "rename"}
      /\ req[1].op = "rename" => req[1].new_name # <<>>
      /\ Foreign(1) \/ Absent(1) )
    => /\ req[1].status = 404
       /\ req[1].body = NotFoundBody(req[1].op)
       /\ req[1].sent = 0
       /\ Stores = pre

\* a Rename of another teacher's name has returned
C6_Witness == Returned(1, "rename") /\ Foreign(1) /\ req[1].new_name # <<>>

\* subject_period_base.pdf, for names made of safe characters only
ExpectedStoredName(materia_name, periodo, fname) ==
    materia_name \o <<"_">> \o periodo \o <<"_">>
        \o SubSeq(fname, 1, Len(fname) - 4) \o <<".", "p", "d", "f">>

\* the Course rows of (teacher, subject name, period)
CoursesOf(d, materia_name, periodo) ==
    {c \in cursos :
        /\ c.docente_id = d
        /\ c.periodo = periodo
        /\ \E m \in materias : m.id = c.materia_id /\ m.nombre = materia_name}

\* C7: after an Upload that succeeded, exactly one Attachment row and exactly
\* one file (holding the uploaded bytes) exist under the stored name, which is
\* subject_period_base.pdf; the row is the only row added, is owned by the
\* caller and is linked to the one Course (caller, subject, period).
C7_UploadStoresOne ==
    (Returned(1, "upload") /\ req[1].status = 200) =>
        LET q == req[1]
            n == ExpectedStoredName(q.materia_name, q.periodo, q.file_filename)
            rows == {a \in archivos : a.nombre = n}
            files == {f \in uploads : f.nombre = n}
            courses == CoursesOf(q.user, q.materia_name, q.periodo)
        IN  /\ Cardinality(rows) = 1
            /\ Cardinality(files) = 1
            /\ \A f \in files : f.data = q.data
            /\ Cardinality(courses) = 1
            /\ \A a \in rows :
                  /\ a.docente_id = q.user
                  /\ \E c \in courses : c.id = a.curso_id
            /\ pre.archivos \subseteq archivos
            /\ archivos \ pre.archivos = rows

\* an upload of "n.PDF" for subject "B " has succeeded
C7_Witness ==
    /\ Returned(1, "upload")
    /\ req[1].status = 200
    /\ req[1].file_filename = <<"n", ".", "P", "D", "F">>

\* C8, as claimed (its frame): an Upload whose derived stored name is already
\* an Attachment does not succeed and leaves the tables and the uploads
\* directory as they were.
C8_AsClaimed ==
    ( /\ Returned(1, "upload")
      /\ req[1].filename # <<>>
      /\ RowIn(pre.archivos, req[1].filename) )
    => /\ req[1].status # 200
       /\ Stores = pre

\* the form of an Upload that must be rejected
InvalidForm(q) ==
    \/ ~q.file_present
    \/ q.file_filename = <<>>
    \/ q.materia_name = <<>>
    \/ q.periodo = <<>>
    \/ q.file_filename \notin { <<"n", ".", "p", "d", "f">>, <<"n", ".", "P", "D", "F">>,
                                <<"m", ".", "p", "d", "f">>, <<"x", ".", "p", "d", "f">> }

\* C9: an Upload with a missing file, an empty filename, an empty subject or
\* period, or a filename that does not end in .pdf is answered 400 with the
\* tables and the uploads directory as they were.
C9_InvalidUploadRejected ==
    (Returned(1, "upload") /\ InvalidForm(req[1])) =>
        /\ req[1].status = 400
        /\ Stores = pre

\* an upload of "n.txt" has been rejected
C9_Witness ==
    /\ Returned(1, "upload")
    /\ req[1].file_filename = <<"n", ".", "t", "x", "t">>
    /\ req[1].status = 400

\* C10: when a Delete returns success neither a row nor a file is left under
\* its name; and a View or Download of that name by the same teacher, as the
\* next request, returns 404.
C10_DeleteThenNotFound ==
    [][ /\ ( /\ pc'[1] = "done"
             /\ req'[1].op = "delete"
             /\ req'[1].status = 200 )
           => /\ ~RowIn(archivos', req'[1].filename)
              /\ ~FileIn(uploads', req'[1].filename)
        /\ ( /\ Returned(1, "delete")
             /\ req[1].status = 200
             /\ req'[1].op \in {"view", "download"}
             /\ req'[1].user = req[1].user
             /\ req'[1].filename = req[1].filename )
           => /\ pc'[1] = "done"
              /\ req'[1].status = 404 ]_vars

\* a Delete has succeeded for a row whose file was not there
C10_Witness ==
    /\ Returned(1, "delete")
    /\ req[1].status = 200
    /\ RowIn(pre.archivos, req[1].filename)
    /\ ~FileIn(pre.uploads, req[1].filename)

\* C11: a Rename whose final new name (sanitized, ".pdf" forced) is the name
\* of an Attachment row of any teacher, the caller included, is rejected (400
\* for the owner of old_name, 404 for anybody else), and the Attachment rows
\* and the physical files are what they were before the request.
C11_RenameConflictRejected ==
    \A r \in Workers :
        ( /\ Returned(r, "rename")
          /\ req[r].new_name # <<>>
          /\ RowIn(pre.archivos, req[r].new_name) )
        => /\ req[r].status \in {400, 404}
           /\ (\E a \in pre.archivos : a.nombre = req[r].filename
                                         /\ a.docente_id = req[r].user)
                 => req[r].status = 400 /\ req[r].body = "name_taken"
           /\ archivos = pre.archivos
           /\ uploads = pre.uploads

\* a Rename was answered 400 because another row of the caller has the name
C11_Witness ==
    \E r \in Workers :
        /\ Returned(r, "rename")
        /\ req[r].body = "name_taken"
        /\ \E a \in archivos : /\ a.nombre = req[r].new_name
                               /\ a.docente_id = req[r].user
                               /\ a.id # req[r].archivo
        /\ FileExists(req[r].new_name) /\ FileExists(req[r].filename)

\* C12: in every state reached by register, upload, rename, delete and
\* delete_account requests run one after another, every Attachment row has a
\* name that no other Attachment row has, is owned by exactly one teacher
\* whose row exists, and is linked to exactly one Course whose row exists.
C12_AttachmentIntegrity ==
    \A a \in archivos :
        /\ \A b \in archivos : b.nombre = a.nombre => b = a
        /\ Cardinality({t \in docentes : t.id = a.docente_id}) = 1
        /\ Cardinality({c \in cursos : c.id = a.curso_id}) = 1

\* a teacher who registered in this behaviour and owns an Attachment asked
\* for the deletion of the account, which was refused
C12_Witness ==
    /\ Returned(1, "delete_account")
    /\ req[1].body = "account_delete_failed"
    /\ req[1].user \notin Docentes
    /\ \E a \in archivos : a.docente_id = req[1].user
    /\ \E t \in docentes : t.id = req[1].user

\* C13: in every reachable state, states reached by concurrent Uploads that
\* both create the same Course included, no two Course rows have the same
\* teacher, subject and period.
C13_CourseUnique ==
    \A c \in cursos : \A e \in cursos :
        ( /\ c.docente_id = e.docente_id
          /\ c.materia_id = e.materia_id
          /\ c.periodo = e.periodo )
        => c = e

\* two Uploads of one teacher for one subject and period were in flight
\* together, both were sent to create the Course; one has committed it, the
\* INSERT of the other was refused
C13_Witness ==
    \E r \in Workers : \E o \in Workers :
        /\ r # o
        /\ Returned(r, "upload") /\ req[r].status = 200
        /\ Returned(o, "upload") /\ req[o].body = "integrity"
        /\ ~req[o].saved
        /\ req[o].user = req[r].user
        /\ req[o].materia = req[r].materia /\ req[o].materia # 0
        /\ req[o].periodo = req[r].periodo
        /\ req[o].curso = 0
        /\ \E c \in cursos : c.id = req[r].curso /\ c.docente_id = req[r].user

\* term occurs in s as a run of consecutive characters, letters compared
\* without regard to case
ContainsNoCase(s, term) ==
    \E i \in 1..(Len(s) - Len(term) + 1) :
        Lower(SubSeq(s, i, i + Len(term) - 1)) = Lower(term)

\* the caller's rows a List with this search term is to return
Listable(d, term) ==
    {a \in archivos :
        /\ a.docente_id = d
        /\ term # <<>> =>
              \/ ContainsNoCase(a.nombre, term)
              \/ \E c \in cursos, m \in materias :
                     /\ c.id = a.curso_id /\ m.id = c.materia_id
                     /\ \/ ContainsNoCase(m.nombre, term)
                        \/ ContainsNoCase(c.periodo, term)}

FechaOf(name) == (CHOOSE a \in archivos : a.nombre = name).fecha_subida

\* C14, as claimed: a List without search term returns exactly the caller's
\* Attachments, latest upload first; a List with a search term returns
\* exactly those of the caller's Attachments whose stored name, subject name
\* or period contains the term, case-insensitively.
C14_AsClaimed ==
    \A r \in Workers :
        (Returned(r, "list") /\ req[r].status = 200)
        => LET listed == req[r].listed
           IN  /\ {listed[i] : i \in 1..Len(listed)}
                    = {a.nombre : a \in Listable(req[r].user, req[r].search)}
               /\ Len(listed) = Cardinality(Listable(req[r].user, req[r].search))
               /\ \A i \in 1..Len(listed) : \A j \in i..Len(listed) :
                      FechaOf(listed[i]) >= FechaOf(listed[j])

\* C15: no two teachers share a payroll number or an email, concurrent
\* registrations included; and a registration whose payroll number or email
\* belonged to a teacher when its INSERT was tried has created no account and
\* was answered with the message of a field that is taken, the payroll
\* message whenever the payroll number was.
C15_RegistrationUnique ==
    /\ \A t \in docentes : \A u \in docentes :
           (t.numero_nomina = u.numero_nomina \/ t.email = u.email) => t = u
    /\ \A r \in Workers :
           (Returned(r, "register") /\ req[r].conflict # {})
           => /\ req[r].created = 0
              /\ req[r].body \in {"nomina_taken", "email_taken"}
              /\ "numero_nomina" \in req[r].conflict => req[r].body = "nomina_taken"
              /\ req[r].body = "nomina_taken"
                    => \E t \in docentes : t.numero_nomina = req[r].numero_nomina
              /\ req[r].body = "email_taken"
                    => \E t \in docentes : t.email = req[r].email
    /\ \A r \in Workers :
           (Returned(r, "register") /\ req[r].created # 0)
           => Cardinality({t \in docentes :
                             \/ t.numero_nomina = req[r].numero_nomina
                             \/ t.email = req[r].email}) = 1

\* two registrations with one payroll number were in flight together: one
\* created the account, the other was answered that the number is taken
C15_Witness ==
    \E r \in Workers : \E o \in Workers :
        /\ r # o
        /\ Returned(r, "register") /\ req[r].body = "registered"
        /\ Returned(o, "register") /\ req[o].body = "nomina_taken"
        /\ req[o].numero_nomina = req[r].numero_nomina
        /\ req[o].email # req[r].email
        /\ \E t \in docentes : t.id = req[r].created /\ t.email = req[r].email

\* C16, as claimed: when two Uploads with the same derived stored name have
\* both returned, one with success and the other rejected with 409, the
\* physical file under that name holds the bytes of the upload whose row was
\* committed; and two such Uploads never both return success.  (Stated for
\* an environment in which no statement but a COMMIT and no filesystem call
\* fails.)
C16_AsClaimed ==
    \A r \in Workers : \A o \in Workers :
        ( /\ r # o
          /\ faults = {"commit"}
          /\ Returned(r, "upload") /\ Returned(o, "upload")
          /\ req[r].filename = req[o].filename
          /\ req[r].status = 200 )
        => /\ req[o].status # 200
           /\ req[o].status = 409
                 => /\ FileExists(req[r].filename)
                    /\ FileData(req[r].filename) = req[r].data

\* C17: a Rename and a Delete of one Attachment by its owner are not kept
\* apart.  Take the upload that stored the Attachment, then a Rename and a
\* Delete of it by its owner, and no other request: whenever the two were in
\* flight on the same row and both returned success, the stores disagree:
\* the file lies under the new name, and no Attachment row has the new name
\* or the old one.
C17_BothSucceedOrphan ==
    \A d \in Workers : \A r \in Workers :
        ( /\ started = 3
          /\ Returned(d, "delete") /\ req[d].status = 200
          /\ Returned(r, "rename") /\ req[r].status = 200
          /\ req[d].archivo = req[r].archivo
          /\ req[d].filename = req[r].filename
          /\ req[d].user = req[r].user )
        => /\ FileExists(req[r].new_name)
           /\ ~RowIn(archivos, req[r].new_name)
           /\ ~RowIn(archivos, req[r].filename)

\* the interleaving happened: both requests have returned 200 and a file
\* is left without an Attachment row
C17_Witness ==
    \E d \in Workers : \E r \in Workers :
        /\ Returned(d, "delete") /\ req[d].status = 200
        /\ Returned(r, "rename") /\ req[r].status = 200
        /\ req[d].archivo = req[r].archivo
        /\ req[d].filename = req[r].filename
        /\ req[d].user = req[r].user
        /\ FileNames # RowNames
        /\ req[r].new_name \in FileNames \ RowNames

====
